---- MODULE Spec2Model ----
(***************************************************************************)
(* Model of the Kafka -> OpenFaaS connector (src/main.go).                 *)
(*                                                                         *)
(* Two goroutines share the process: the main goroutine (connect loop,     *)
(* makeConsumer, the select loop with the mcb dispatch callback) and the   *)
(* refresh goroutine (ticker, lookupBuilder.Build, topicMap.Sync).         *)
(* types.TopicMap and types.FunctionLookupBuilder are not part of the      *)
(* source at hand; NewTopicMap, Sync and Match follow their contract.      *)
(***************************************************************************)
EXTENDS Integers, Sequences, FiniteSets, TLC

(* ----------------------------- bounds ---------------------------------- *)
\* messages delivered per topic-partition
MaxOffset == 2
\* broker errors / rebalance notifications waiting in their channels
MaxPending == 1

(* --------------------------- program constants ------------------------- *)
MaxInt32 == 2147483647

gatewayURL == "http://gateway:8080"

Functions == {"f1", "f2"}

\* config.topics as bound by cluster.NewConsumer, with their partitions
TopicPartitions == {<<"orders", 0>>, <<"payments", 0>>}

\* msg.Value: an empty payload and a non-empty one
Payloads == {<<>>, <<7>>}

Sub(f, t) == [function |-> f, topic |-> t]

\* what the registry may answer to one Build: lists of (function, topic)
RegistryStates ==
    { <<>>,
      <<Sub("f1", "orders"), Sub("f2", "orders"), Sub("f1", "payments")>>,
      <<Sub("f2", "payments"), Sub("f2", "payments")>> }

\* c.Do outcomes: a transport error, or a response with a status code whose
\* body is read by ioutil.ReadAll with or without error
Outcomes ==
    { [err |-> TRUE, status |-> 0, readErr |-> FALSE] } \cup
    { [err |-> FALSE, status |-> s, readErr |-> r] : s \in {200, 500}, r \in BOOLEAN }

Pending == [err |-> FALSE, status |-> -1, readErr |-> FALSE]

NoMsg == [topic |-> "", partition |-> -1, offset |-> -1, value |-> <<>>]

(* --------------------------- buildConnectorConfig ---------------------- *)
\* rebuildInterval when rebuild_interval is absent or does not parse, seconds
DefaultRebuildInterval == 3

\* time.NewTicker(time.Second * 3)
TickerPeriod == 3

Digits == <<"0", "1", "2", "3", "4", "5", "6", "7", "8", "9">>

IsDigit(c) == \E i \in DOMAIN Digits : Digits[i] = c

DigitValue(c) == (CHOOSE i \in DOMAIN Digits : Digits[i] = c) - 1

RECURSIVE DecimalValue(_)
DecimalValue(ds) ==
    IF ds = <<>> THEN 0
    ELSE 10 * DecimalValue(SubSeq(ds, 1, Len(ds) - 1)) + DigitValue(ds[Len(ds)])

\* seconds per unit
UnitSeconds(u) == CASE u = "s" -> 1 [] u = "m" -> 60 [] u = "h" -> 3600

\* time.ParseDuration on a string of digits followed by one unit letter;
\* anything else here (no digits, no unit, other characters) is an error
ParseDuration(val) ==
    IF /\ Len(val) >= 2
       /\ val[Len(val)] \in {"s", "m", "h"}
       /\ \A k \in 1..(Len(val) - 1) : IsDigit(val[k])
    THEN [ok |-> TRUE,
          seconds |-> DecimalValue(SubSeq(val, 1, Len(val) - 1)) * UnitSeconds(val[Len(val)])]
    ELSE [ok |-> FALSE, seconds |-> 0]

\* os.LookupEnv("rebuild_interval")
EnvUnset == [exists |-> FALSE, val |-> <<>>]
EnvSet(v) == [exists |-> TRUE, val |-> v]

RebuildIntervalEnv ==
    {EnvUnset, EnvSet(<<"5", "s">>), EnvSet(<<"1", "m">>), EnvSet(<<"a", "b", "c">>),
     EnvSet(<<"3", "0">>)}

\* config.rebuildInterval as buildConnectorConfig computes it
RebuildInterval(env) ==
    IF env.exists /\ ParseDuration(env.val).ok
    THEN ParseDuration(env.val).seconds
    ELSE DefaultRebuildInterval

(* ------------------------- types.TopicMap ------------------------------ *)
\* empty index
NewTopicMap == [t \in {} |-> {}]

\* a brand-new mapping grouped by topic
Sync(subs) ==
    [t \in {subs[k].topic : k \in DOMAIN subs} |->
        {subs[k].function : k \in {j \in DOMAIN subs : subs[j].topic = t}}]

\* subscriber set of a topic in one index snapshot, empty when absent
Match(index, topicName) ==
    IF topicName \in DOMAIN index THEN index[topicName] ELSE {}

\* the orders in which a subscriber set may be ranged over
Orderings(S) ==
    {q \in [1..Cardinality(S) -> S] : \A a, b \in DOMAIN q : a # b => q[a] # q[b]}

(* ------------------------------ state ---------------------------------- *)
VARIABLES
    pc,               \* position of the main goroutine
    client,           \* main: handle returned by sarama.NewClient
    err,              \* main: error returned by sarama.NewClient
    fatal,            \* "none", or the log.Fatalln that ended the process
    rpc,              \* position of the refresh goroutine
    lookups,          \* refresh goroutine: result of Build
    topicMap,         \* the published index
    snap,             \* index snapshot a running Match call has loaded
    msg,              \* message taken from consumer.Messages()
    num,              \* received-message counter
    matchedFunctions, \* mcb: result of topicMap.Match
    idx,              \* mcb: position of the range loop
    invoked,          \* requests issued for msg, with their outcomes
    received,         \* per topic-partition: offsets taken by the loop
    marked,           \* per topic-partition: offsets passed to MarkOffset
    errorsCh,         \* consumer.Errors(): entries waiting
    notifsCh,         \* consumer.Notifications(): entries waiting
    stdout,           \* what the last fmt.Print call of the process reported
    synced,           \* history: a topicMap.Sync call has completed
    rebuildInterval,  \* config.rebuildInterval, in seconds
    tickerPeriod      \* period of the refresh ticker in seconds, 0 before it exists

vars == <<pc, client, err, fatal, rpc, lookups, topicMap, snap, msg, num,
          matchedFunctions, idx, invoked, received, marked, errorsCh, notifsCh,
          stdout, synced, rebuildInterval, tickerPeriod>>

mainVars == <<pc, client, err>>
refreshVars == <<rpc, lookups>>
mcbVars == <<snap, msg, num, matchedFunctions, idx, invoked>>
offsetVars == <<received, marked>>
brokerVars == <<errorsCh, notifsCh>>
configVars == <<rebuildInterval, tickerPeriod>>

\* variant: a failed Build is logged with log.Println and the process goes on
runningAfterBuildError == fatal # "NewConsumer"

running == fatal = "none"

tp(m) == <<m.topic, m.partition>>

\* state when main enters the connect loop, given the environment
InitEnv(env) ==
    /\ pc = "connect"
    /\ client = "nil"
    /\ err = FALSE
    /\ fatal = "none"
    /\ rpc = "off"
    /\ lookups = <<>>
    /\ topicMap = NewTopicMap
    /\ snap = NewTopicMap
    /\ msg = NoMsg
    /\ num = 0
    /\ matchedFunctions = <<>>
    /\ idx = 0
    /\ invoked = <<>>
    /\ received = [p \in TopicPartitions |-> <<>>]
    /\ marked = [p \in TopicPartitions |-> <<>>]
    /\ errorsCh = 0
    /\ notifsCh = 0
    /\ stdout = ""
    /\ synced = FALSE
    /\ rebuildInterval = RebuildInterval(env)
    /\ tickerPeriod = 0

\* the process started without rebuild_interval in its environment
Init == InitEnv(EnvUnset)

\* the process started with any of the rebuild_interval settings
ConfigInit == \E env \in RebuildIntervalEnv : InitEnv(env)

(* --------------------------- main: connect loop ------------------------ *)
\* the attempt succeeded: non-nil client and no error
Connected(cl, e) == cl # "nil" /\ ~e

\* sarama.NewClient returns (client, err); break on success
NewClient ==
    /\ running /\ pc = "connect"
    /\ \E cl \in {"nil", "open"}, e \in BOOLEAN :
        /\ client' = cl
        /\ err' = e
        /\ pc' = IF Connected(cl, e) THEN "makeConsumer" ELSE "failed"
    /\ UNCHANGED <<fatal, refreshVars, topicMap, mcbVars, offsetVars, brokerVars>>
    /\ UNCHANGED <<stdout, synced, rebuildInterval, tickerPeriod>>

\* variant: the failure branch forgets client.Close()
CloseNever(cl) == cl

\* the handle after the failure branch: closed when non-nil
CloseIfPartial(cl) == IF cl # "nil" THEN "closed" ELSE cl

\* variant: a failed attempt ends the process instead of retrying
BackoffFatal ==
    /\ running /\ pc = "failed"
    /\ fatal' = "NewClient"
    /\ UNCHANGED <<mainVars, refreshVars, topicMap, mcbVars, offsetVars, brokerVars>>
    /\ UNCHANGED <<stdout, synced, rebuildInterval, tickerPeriod>>

\* failed attempt: close a non-nil client, print, sleep one second, retry
Backoff ==
    /\ running /\ pc = "failed"
    /\ client' = CloseIfPartial(client)
    /\ pc' = "connect"
    /\ UNCHANGED <<err, fatal, refreshVars, topicMap, mcbVars, offsetVars, brokerVars>>
    /\ stdout' = "wait for brokers"
    /\ UNCHANGED <<synced, rebuildInterval, tickerPeriod>>

(* --------------------------- makeConsumer setup ------------------------ *)
\* variant: the set-up builds and syncs the index once before the loop starts
NewConsumerOkEagerSync ==
    /\ running /\ pc = "makeConsumer"
    /\ topicMap' = Sync(<<Sub("f1", "orders"), Sub("f2", "orders"), Sub("f1", "payments")>>)
    /\ synced' = TRUE
    /\ rpc' = "ticker"
    /\ pc' = "select"
    /\ tickerPeriod' = TickerPeriod
    /\ UNCHANGED <<client, err, fatal, lookups, mcbVars, offsetVars, brokerVars>>
    /\ UNCHANGED <<stdout, rebuildInterval>>

\* cluster.NewConsumer succeeded: topicMap, ticker and refresh goroutine set up
NewConsumerOk ==
    /\ running /\ pc = "makeConsumer"
    /\ topicMap' = NewTopicMap
    /\ rpc' = "ticker"
    /\ pc' = "select"
    /\ UNCHANGED <<client, err, fatal, lookups, mcbVars, offsetVars, brokerVars>>
    /\ tickerPeriod' = TickerPeriod
    /\ UNCHANGED <<stdout, synced, rebuildInterval>>

\* cluster.NewConsumer failed: log.Fatalln
NewConsumerFail ==
    /\ running /\ pc = "makeConsumer"
    /\ fatal' = "NewConsumer"
    /\ UNCHANGED <<mainVars, refreshVars, topicMap, mcbVars, offsetVars, brokerVars>>
    /\ UNCHANGED <<stdout, synced, rebuildInterval, tickerPeriod>>

(* --------------------------- refresh goroutine ------------------------- *)
\* <-ticker.C, then lookupBuilder.Build() is called
Tick ==
    /\ running /\ rpc = "ticker"
    /\ rpc' = "build"
    /\ UNCHANGED <<mainVars, fatal, lookups, topicMap, mcbVars, offsetVars, brokerVars>>
    /\ UNCHANGED <<stdout, synced, rebuildInterval, tickerPeriod>>

\* Build returned a list of subscriptions
BuildOk ==
    /\ running /\ rpc = "build"
    /\ \E r \in RegistryStates : lookups' = r
    /\ rpc' = "sync"
    /\ UNCHANGED <<mainVars, fatal, topicMap, mcbVars, offsetVars, brokerVars>>
    /\ UNCHANGED <<stdout, synced, rebuildInterval, tickerPeriod>>

\* Build returned an error: log.Fatalln
BuildFail ==
    /\ running /\ rpc = "build"
    /\ fatal' = "Build"
    /\ UNCHANGED <<mainVars, refreshVars, topicMap, mcbVars, offsetVars, brokerVars>>
    /\ UNCHANGED <<stdout, synced, rebuildInterval, tickerPeriod>>

\* variant: the new subscriptions are added to the published index in place
SyncTopicMapMerge ==
    /\ running /\ rpc = "sync"
    /\ topicMap' = [t \in DOMAIN topicMap \cup DOMAIN Sync(lookups) |->
                        Match(topicMap, t) \cup Match(Sync(lookups), t)]
    /\ rpc' = "ticker"
    /\ UNCHANGED <<mainVars, fatal, lookups, mcbVars, offsetVars, brokerVars>>
    /\ synced' = TRUE
    /\ UNCHANGED <<stdout, rebuildInterval, tickerPeriod>>

\* topicMap.Sync(&lookups)
SyncTopicMap ==
    /\ running /\ rpc = "sync"
    /\ topicMap' = Sync(lookups)
    /\ rpc' = "ticker"
    /\ UNCHANGED <<mainVars, fatal, lookups, mcbVars, offsetVars, brokerVars>>
    /\ synced' = TRUE
    /\ UNCHANGED <<stdout, rebuildInterval, tickerPeriod>>

(* --------------------------- broker side ------------------------------- *)
BrokerError ==
    /\ running /\ pc \notin {"connect", "failed", "makeConsumer"}
    /\ errorsCh < MaxPending
    /\ errorsCh' = errorsCh + 1
    /\ UNCHANGED <<mainVars, fatal, refreshVars, topicMap, mcbVars, offsetVars, notifsCh>>
    /\ UNCHANGED <<stdout, synced, rebuildInterval, tickerPeriod>>

BrokerRebalance ==
    /\ running /\ pc \notin {"connect", "failed", "makeConsumer"}
    /\ notifsCh < MaxPending
    /\ notifsCh' = notifsCh + 1
    /\ UNCHANGED <<mainVars, fatal, refreshVars, topicMap, mcbVars, offsetVars, errorsCh>>
    /\ UNCHANGED <<stdout, synced, rebuildInterval, tickerPeriod>>

(* --------------------------- select loop ------------------------------- *)
\* variant: mcb without the len(msg.Value) > 0 test
AfterReceiveAlwaysMatch(m) == "match"

\* where the loop goes after taking a message: mcb dispatches only a
\* non-empty payload
AfterReceive(m) == IF Len(m.value) > 0 THEN "match" ELSE "mark"

\* case msg, ok := <-consumer.Messages(): count, print, enter mcb
Receive ==
    /\ running /\ pc = "select"
    /\ \E p \in TopicPartitions, v \in Payloads :
        /\ Len(received[p]) < MaxOffset
        /\ LET m == [topic |-> p[1], partition |-> p[2],
                     offset |-> Len(received[p]), value |-> v]
           IN /\ msg' = m
              /\ received' = [received EXCEPT ![p] = Append(@, m.offset)]
              /\ pc' = AfterReceive(m)
    /\ num' = (num + 1) % MaxInt32
    /\ matchedFunctions' = <<>>
    /\ idx' = 0
    /\ invoked' = <<>>
    /\ snap' = NewTopicMap
    /\ UNCHANGED <<client, err, fatal, refreshVars, topicMap, marked, brokerVars>>
    /\ stdout' = "received"
    /\ UNCHANGED <<synced, rebuildInterval, tickerPeriod>>

\* variant: Match waits while the refresh goroutine is inside Build
MatchLoadBlockedByBuild ==
    /\ running /\ pc = "match"
    /\ rpc # "build"
    /\ snap' = topicMap
    /\ pc' = "matched"
    /\ UNCHANGED <<client, err, fatal, refreshVars, topicMap, msg, num,
                   matchedFunctions, idx, invoked, offsetVars, brokerVars>>
    /\ UNCHANGED <<stdout, synced, rebuildInterval, tickerPeriod>>

\* variant: a lookup of an absent topic inserts an empty entry in the index
MatchLoadInserting ==
    /\ running /\ pc = "match"
    /\ snap' = topicMap
    /\ topicMap' = [t \in DOMAIN topicMap \cup {msg.topic} |-> Match(topicMap, t)]
    /\ pc' = "matched"
    /\ UNCHANGED <<client, err, fatal, refreshVars, msg, num,
                   matchedFunctions, idx, invoked, offsetVars, brokerVars>>
    /\ UNCHANGED <<stdout, synced, rebuildInterval, tickerPeriod>>

\* topicMap.Match(msg.Topic): the call loads the current index ...
MatchLoad ==
    /\ running /\ pc = "match"
    /\ snap' = topicMap
    /\ pc' = "matched"
    /\ UNCHANGED <<client, err, fatal, refreshVars, topicMap, msg, num,
                   matchedFunctions, idx, invoked, offsetVars, brokerVars>>
    /\ UNCHANGED <<stdout, synced, rebuildInterval, tickerPeriod>>

\* variant: the call reads part of the entry from the index loaded and the
\* rest from the index published meanwhile
MatchReturnTorn ==
    /\ running /\ pc = "matched"
    /\ matchedFunctions' \in Orderings((Match(snap, msg.topic) \cap {"f1"}) \cup
                                        (Match(topicMap, msg.topic) \ {"f1"}))
    /\ idx' = 1
    /\ pc' = "range"
    /\ UNCHANGED <<client, err, fatal, refreshVars, topicMap, snap, msg, num,
                   invoked, offsetVars, brokerVars>>
    /\ UNCHANGED <<stdout, synced, rebuildInterval, tickerPeriod>>

\* ... and returns the subscribers of the topic in it
MatchReturn ==
    /\ running /\ pc = "matched"
    /\ matchedFunctions' \in Orderings(Match(snap, msg.topic))
    /\ idx' = 1
    /\ pc' = "range"
    /\ UNCHANGED <<client, err, fatal, refreshVars, topicMap, snap, msg, num,
                   invoked, offsetVars, brokerVars>>
    /\ UNCHANGED <<stdout, synced, rebuildInterval, tickerPeriod>>

\* variant: the request is built without the payload reader
NewRequestNoBody(m, f) ==
    [method |-> "POST", url |-> <<gatewayURL, "function", f>>, function |-> f,
     body |-> <<>>, outcome |-> Pending]

\* http.NewRequest(POST, gatewayURL/function/f, bytes.NewReader(msg.Value))
NewRequest(m, f) ==
    [method |-> "POST", url |-> <<gatewayURL, "function", f>>, function |-> f,
     body |-> m.value, outcome |-> Pending]

\* variant: a message nobody subscribes to goes back to the loop unmarked
RangeNextSkipMarkWhenEmpty ==
    /\ running /\ pc = "range"
    /\ IF idx <= Len(matchedFunctions)
       THEN /\ invoked' = Append(invoked, NewRequest(msg, matchedFunctions[idx]))
            /\ pc' = "do"
       ELSE /\ pc' = IF Len(matchedFunctions) = 0 THEN "select" ELSE "mark"
            /\ UNCHANGED invoked
    /\ UNCHANGED <<client, err, fatal, refreshVars, topicMap, snap, msg, num,
                   matchedFunctions, idx, offsetVars, brokerVars>>
    /\ UNCHANGED <<stdout, synced, rebuildInterval, tickerPeriod>>

\* variant: the requests for all remaining subscribers are started at once
RangeNextConcurrent ==
    /\ running /\ pc = "range"
    /\ IF idx <= Len(matchedFunctions)
       THEN /\ invoked' = invoked \o
                    [k \in 1..(Len(matchedFunctions) - idx + 1) |->
                        NewRequest(msg, matchedFunctions[idx + k - 1])]
            /\ pc' = "do"
       ELSE /\ pc' = "mark"
            /\ UNCHANGED invoked
    /\ UNCHANGED <<client, err, fatal, refreshVars, topicMap, snap, msg, num,
                   matchedFunctions, idx, offsetVars, brokerVars>>
    /\ UNCHANGED <<stdout, synced, rebuildInterval, tickerPeriod>>

\* variant: each iteration asks the published index again and skips a
\* function that is no longer subscribed
RangeNextRematch ==
    /\ running /\ pc = "range"
    /\ IF idx <= Len(matchedFunctions)
       THEN IF matchedFunctions[idx] \in Match(topicMap, msg.topic)
            THEN /\ invoked' = Append(invoked, NewRequest(msg, matchedFunctions[idx]))
                 /\ pc' = "do"
                 /\ UNCHANGED idx
            ELSE /\ idx' = idx + 1
                 /\ UNCHANGED <<invoked, pc>>
       ELSE /\ pc' = "mark"
            /\ UNCHANGED <<invoked, idx>>
    /\ UNCHANGED <<client, err, fatal, refreshVars, topicMap, snap, msg, num,
                   matchedFunctions, offsetVars, brokerVars>>
    /\ UNCHANGED <<stdout, synced, rebuildInterval, tickerPeriod>>

\* range matchedFunctions: issue the next request, or leave mcb at the end
RangeNext ==
    /\ running /\ pc = "range"
    /\ IF idx <= Len(matchedFunctions)
       THEN /\ invoked' = Append(invoked, NewRequest(msg, matchedFunctions[idx]))
            /\ pc' = "do"
       ELSE /\ pc' = "mark"
            /\ UNCHANGED invoked
    /\ UNCHANGED <<client, err, fatal, refreshVars, topicMap, snap, msg, num,
                   matchedFunctions, idx, offsetVars, brokerVars>>
    /\ UNCHANGED <<stdout, synced, rebuildInterval, tickerPeriod>>

\* variant: a transport error leaves the select case, skipping MarkOffset
AfterDoSkipMark(o) == IF o.err THEN "select" ELSE "range"

\* variant: a response with a non-2xx status returns from mcb like an error
AfterDoReturnOnNon2xx(o) == IF o.err \/ o.status >= 300 THEN "mark" ELSE "range"

\* where mcb goes after c.Do returned: a transport error returns from mcb
AfterDo(o) == IF o.err THEN "mark" ELSE "range"

\* c.Do(httpReq) returns; the response body is read and logged
DoReturn ==
    /\ running /\ pc = "do"
    /\ \E o \in Outcomes :
        /\ invoked' = [invoked EXCEPT ![Len(invoked)].outcome = o]
        /\ pc' = AfterDo(o)
        /\ idx' = IF o.err THEN idx ELSE idx + 1
    /\ UNCHANGED <<client, err, fatal, refreshVars, topicMap, snap, msg, num,
                   matchedFunctions, offsetVars, brokerVars>>
    /\ UNCHANGED <<stdout, synced, rebuildInterval, tickerPeriod>>

\* variant: the offset is marked only when the last invocation got a response
MarkOffsetUnlessFailed ==
    /\ running /\ pc = "mark"
    /\ marked' = IF invoked # <<>> /\ invoked[Len(invoked)].outcome.err
                  THEN marked
                  ELSE [marked EXCEPT ![tp(msg)] = Append(@, msg.offset)]
    /\ pc' = "select"
    /\ UNCHANGED <<client, err, fatal, refreshVars, topicMap, mcbVars, received, brokerVars>>
    /\ UNCHANGED <<stdout, synced, rebuildInterval, tickerPeriod>>

\* variant: MarkOffset waits until no broker error is left unread
MarkOffsetBlockedByErrors ==
    /\ running /\ pc = "mark"
    /\ errorsCh = 0
    /\ marked' = [marked EXCEPT ![tp(msg)] = Append(@, msg.offset)]
    /\ pc' = "select"
    /\ UNCHANGED <<client, err, fatal, refreshVars, topicMap, mcbVars, received, brokerVars>>
    /\ UNCHANGED <<stdout, synced, rebuildInterval, tickerPeriod>>

\* consumer.MarkOffset(msg, "")
MarkOffset ==
    /\ running /\ pc = "mark"
    /\ marked' = [marked EXCEPT ![tp(msg)] = Append(@, msg.offset)]
    /\ pc' = "select"
    /\ UNCHANGED <<client, err, fatal, refreshVars, topicMap, mcbVars, received, brokerVars>>
    /\ UNCHANGED <<stdout, synced, rebuildInterval, tickerPeriod>>

\* variant: a broker error sends the process back to the connect loop
ConsumerErrorReconnect ==
    /\ running /\ pc = "select"
    /\ errorsCh > 0
    /\ errorsCh' = errorsCh - 1
    /\ pc' = "connect"
    /\ stdout' = "consumer error"
    /\ UNCHANGED <<client, err, fatal, refreshVars, topicMap, mcbVars, offsetVars, notifsCh>>
    /\ UNCHANGED <<synced, rebuildInterval, tickerPeriod>>

\* case err = <-consumer.Errors(): print
ConsumerError ==
    /\ running /\ pc = "select"
    /\ errorsCh > 0
    /\ errorsCh' = errorsCh - 1
    /\ UNCHANGED <<mainVars, fatal, refreshVars, topicMap, mcbVars, offsetVars, notifsCh>>
    /\ stdout' = "consumer error"
    /\ UNCHANGED <<synced, rebuildInterval, tickerPeriod>>

\* case ntf := <-consumer.Notifications(): print
Rebalanced ==
    /\ running /\ pc = "select"
    /\ notifsCh > 0
    /\ notifsCh' = notifsCh - 1
    /\ UNCHANGED <<mainVars, fatal, refreshVars, topicMap, mcbVars, offsetVars, errorsCh>>
    /\ stdout' = "rebalanced"
    /\ UNCHANGED <<synced, rebuildInterval, tickerPeriod>>

Next ==
    \/ NewClient
    \/ Backoff
    \/ NewConsumerOk
    \/ NewConsumerFail
    \/ Tick
    \/ BuildOk
    \/ BuildFail
    \/ SyncTopicMap
    \/ BrokerError
    \/ BrokerRebalance
    \/ Receive
    \/ MatchLoad
    \/ MatchReturn
    \/ RangeNext
    \/ DoReturn
    \/ MarkOffset
    \/ ConsumerError
    \/ Rebalanced

Spec == Init /\ [][Next]_vars

\* the same program over every rebuild_interval setting
ConfigSpec == ConfigInit /\ [][Next]_vars

\* the consumer loop keeps running and every c.Do call returns
ConsumerFairness ==
    /\ WF_vars(MatchLoad)
    /\ WF_vars(MatchReturn)
    /\ WF_vars(RangeNext)
    /\ WF_vars(DoReturn)
    /\ WF_vars(MarkOffset)

FairSpec == Init /\ [][Next]_vars /\ ConsumerFairness

TypeOK ==
    /\ pc \in {"connect", "failed", "makeConsumer", "select", "match",
               "matched", "range", "do", "mark"}
    /\ client \in {"nil", "open", "closed"}
    /\ fatal \in {"none", "NewClient", "NewConsumer", "Build"}
    /\ rpc \in {"off", "ticker", "build", "sync"}
    /\ num \in 0..MaxInt32

(* ------------------------------ properties ----------------------------- *)
Range(s) == {s[k] : k \in DOMAIN s}

NoDuplicates(s) == \A a, b \in DOMAIN s : a # b => s[a] # s[b]

\* the main goroutine is inside mcb for msg
InMcb == pc \in {"match", "matched", "range", "do"}

\* mcb has returned for msg
McbReturned == pc \in {"mark", "select"} /\ msg # NoMsg

\* msg is the last offset marked in its partition
MsgMarked ==
    /\ marked[tp(msg)] # <<>>
    /\ marked[tp(msg)][Len(marked[tp(msg)])] = msg.offset

TopicUniverse == {"orders", "payments", "shipping"}

\* the functions a subscription list associates with a topic
SubscribersIn(subs, t) ==
    {f \in Functions : \E k \in DOMAIN subs : subs[k].function = f /\ subs[k].topic = t}

\* the index that holds exactly one subscription list
IndexOf(subs) ==
    [t \in {u \in TopicUniverse : SubscribersIn(subs, u) # {}} |-> SubscribersIn(subs, t)]

CompleteVersions == {IndexOf(r) : r \in RegistryStates}

\* C1: once mcb has returned for a message with non-empty payload, exactly
\* one request has been issued to each function match returned, in the
\* order ranged over, each with the payload as body, whatever the outcome
\* of the individual requests.
AllSubscribersInvoked ==
    (McbReturned /\ Len(msg.value) > 0) =>
        /\ Len(invoked) = Len(matchedFunctions)
        /\ \A k \in DOMAIN invoked :
            /\ invoked[k].function = matchedFunctions[k]
            /\ invoked[k].body = msg.value

\* C2: every offset is marked at most once, never while the callback for
\* its message is still running, and whenever the loop is back at the
\* select every message received has been marked, whatever the outcomes of
\* its invocations; no function is invoked twice for the message.
OffsetMarkedOnce ==
    /\ \A p \in TopicPartitions : NoDuplicates(marked[p])
    /\ (InMcb \/ pc = "mark") => msg.offset \notin Range(marked[tp(msg)])
    /\ pc = "select" => \A p \in TopicPartitions : Range(marked[p]) = Range(received[p])
    /\ (pc = "select" /\ msg # NoMsg) => MsgMarked
    /\ NoDuplicates([k \in DOMAIN invoked |-> invoked[k].function])

\* C2 witness: a message whose first invocation got a 500 with an unreadable
\* body and whose second one failed in the transport has been marked.
OffsetMarkedOnceWitness ==
    /\ pc = "select"
    /\ Len(invoked) = 2
    /\ invoked[1].outcome = [err |-> FALSE, status |-> 500, readErr |-> TRUE]
    /\ invoked[2].outcome.err
    /\ MsgMarked

\* C3: in every partition the marked offsets are a prefix of the received
\* ones (same order, none skipped), the only received offset not yet marked
\* is that of the message in progress, and it stays unmarked as long as an
\* invocation for it is pending or may still be started.
OffsetsInOrder ==
    /\ \A p \in TopicPartitions :
        /\ Len(marked[p]) <= Len(received[p])
        /\ \A k \in DOMAIN marked[p] : marked[p][k] = received[p][k]
        /\ \A a, b \in DOMAIN marked[p] : a < b => marked[p][a] < marked[p][b]
        /\ Len(received[p]) - Len(marked[p]) <=
              (IF p = tp(msg) /\ (InMcb \/ pc = "mark") THEN 1 ELSE 0)
    /\ InMcb =>
        /\ Len(marked[tp(msg)]) = Len(received[tp(msg)]) - 1
        /\ received[tp(msg)][Len(received[tp(msg)])] = msg.offset

\* C3 witness: two partitions have marked offsets, and the second message of
\* one of them has an invocation pending.
OffsetsInOrderWitness ==
    /\ marked[<<"payments", 0>>] = <<0, 1>>
    /\ marked[<<"orders", 0>>] = <<0>>
    /\ tp(msg) = <<"orders", 0>>
    /\ msg.offset = 1
    /\ pc = "do"

\* C4: the published index and the snapshot a match call works on are
\* always one complete version (the empty index or the grouping of one
\* whole Build result), and what match returns is the entry of the
\* snapshot it loaded.
NoTornRead ==
    /\ topicMap \in CompleteVersions
    /\ snap \in CompleteVersions
    /\ idx >= 1 => Range(matchedFunctions) = Match(snap, msg.topic)

\* C4 witness: match has returned the entry of the version it loaded while
\* sync has published another version with a different entry for the topic.
NoTornReadWitness ==
    /\ pc = "range"
    /\ invoked = <<>>
    /\ matchedFunctions # <<>>
    /\ topicMap # NewTopicMap
    /\ Match(snap, msg.topic) # Match(topicMap, msg.topic)

\* C5: from the end of a sync to the next one, match returns for every
\* topic exactly the functions the synced list associates with it, hence
\* the empty set for a topic the list does not name.
SyncReplaces ==
    rpc \in {"ticker", "build"} =>
        \A t \in TopicUniverse : Match(topicMap, t) = SubscribersIn(lookups, t)

\* C5 witness: a message on "orders" was matched to two functions by an
\* earlier index; the list synced since no longer names "orders".
SyncReplacesWitness ==
    /\ rpc = "ticker"
    /\ lookups = <<Sub("f2", "payments"), Sub("f2", "payments")>>
    /\ msg.topic = "orders"
    /\ Len(invoked) = 2
    /\ Match(topicMap, "orders") = {}
    /\ Match(topicMap, "payments") = {"f2"}

\* C6: the step in which Build fails is taken from inside the Build call,
\* publishes nothing and leaves index, invocations and offsets as they are;
\* from then on no step of any goroutine changes anything.
RegistryFailureTerminates ==
    [][ /\ fatal = "Build" => UNCHANGED vars
        /\ (fatal # "Build" /\ fatal' = "Build") =>
              /\ rpc = "build" /\ rpc' = "build"
              /\ UNCHANGED <<topicMap, lookups, invoked, marked, received, pc>> ]_vars

\* C6 witness: the process ended by a Build failure after an index had been
\* published and while an invocation was pending.
RegistryFailureWitness ==
    /\ fatal = "Build"
    /\ topicMap # NewTopicMap
    /\ pc = "do"

\* C7: a message with empty payload never enters match, gets no invocation,
\* and is the last offset marked in its partition once the loop is back at
\* the select.
EmptyPayloadMarked ==
    (msg # NoMsg /\ Len(msg.value) = 0) =>
        /\ pc \in {"mark", "select"}
        /\ idx = 0 /\ matchedFunctions = <<>> /\ invoked = <<>>
        /\ snap = NewTopicMap
        /\ pc = "select" => MsgMarked /\ marked[tp(msg)] = received[tp(msg)]

\* C7 witness: an empty message on a topic with subscribers has been marked
\* as the second offset of its partition.
EmptyPayloadWitness ==
    /\ pc = "select"
    /\ msg # NoMsg /\ Len(msg.value) = 0
    /\ Match(topicMap, msg.topic) # {}
    /\ marked[tp(msg)] = <<0, 1>>

\* C8: when the index loaded by match has no subscriber for the topic of a
\* non-empty message, match returns the empty list, no request is issued,
\* mcb goes straight to the mark and the offset is marked.
NoSubscribersMarked ==
    (idx >= 1 /\ Match(snap, msg.topic) = {}) =>
        /\ matchedFunctions = <<>>
        /\ invoked = <<>>
        /\ pc \in {"range", "mark", "select"}
        /\ pc = "select" => MsgMarked /\ marked[tp(msg)] = received[tp(msg)]

\* C8 witness: a non-empty message on a topic without subscribers in a
\* non-empty index has been marked.
NoSubscribersWitness ==
    /\ pc = "select"
    /\ Len(msg.value) > 0
    /\ idx >= 1
    /\ snap # NewTopicMap
    /\ Match(snap, msg.topic) = {}
    /\ MsgMarked

ConnectLoopHandsLiveClient ==
    /\ [](pc \notin {"connect", "failed"} => (client = "open" /\ ~err))
    /\ [](pc = "connect" => client # "open")
    /\ [](pc \in {"connect", "failed"} =>
            /\ running
            /\ rpc = "off" /\ topicMap = NewTopicMap /\ lookups = <<>>
            /\ msg = NoMsg /\ num = 0 /\ invoked = <<>>
            /\ \A p \in TopicPartitions : received[p] = <<>> /\ marked[p] = <<>>
            /\ errorsCh = 0 /\ notifsCh = 0)
    /\ [][pc = "failed" => (pc' = "connect" /\ client' # "open")]_vars

\* C10 witness: a partially constructed client has been closed and the
\* loop is about to attempt again.
ConnectLoopWitness ==
    /\ pc = "connect"
    /\ client = "closed"
    /\ rpc = "off"

\* C11: a request is pending only while the loop waits in c.Do, and it is
\* the last one issued; a request is issued only when all earlier ones have
\* completed; a message, a broker error or a rebalance notification is taken
\* only at the select, when the previous message has been marked.
SequentialInvocations ==
    /\ [](\A k \in DOMAIN invoked :
            invoked[k].outcome = Pending => (k = Len(invoked) /\ pc = "do"))
    /\ [](pc = "do" => (invoked # <<>> /\ invoked[Len(invoked)].outcome = Pending))
    /\ [][Len(invoked') > Len(invoked) =>
            /\ Len(invoked') = Len(invoked) + 1
            /\ \A k \in DOMAIN invoked : invoked[k].outcome # Pending]_vars
    /\ [][(received' # received \/ errorsCh' < errorsCh \/ notifsCh' < notifsCh) =>
            /\ pc = "select"
            /\ \A p \in TopicPartitions : marked[p] = received[p]]_vars

\* C11 witness: the second request of a message is pending, the first has
\* completed, and a broker error and a notification wait unhandled.
SequentialInvocationsWitness ==
    /\ pc = "do"
    /\ Len(invoked) = 2
    /\ invoked[1].outcome # Pending
    /\ invoked[2].outcome = Pending
    /\ errorsCh > 0 /\ notifsCh > 0

\* C12: when c.Do returns a response, whatever its status and whether or
\* not its body could be read, the process keeps running and the range loop
\* moves to the next subscriber; a message all of whose invocations got a
\* response has had every subscriber invoked, and it is marked when the
\* loop is back at the select.
ResponseNonFatal ==
    /\ [][(pc = "do" /\ pc' # "do" /\ ~invoked'[Len(invoked')].outcome.err) =>
            /\ pc' = "range" /\ idx' = idx + 1
            /\ running'
            /\ UNCHANGED <<msg, matchedFunctions, marked>>]_vars
    /\ []((McbReturned /\ \A k \in DOMAIN invoked : ~invoked[k].outcome.err) =>
            [k \in DOMAIN invoked |-> invoked[k].function] = matchedFunctions)
    /\ []((pc = "select" /\ msg # NoMsg) => MsgMarked)

\* C12 witness: the second message received had two subscribers; the first
\* answered 500 with an unreadable body, the second 500; it has been marked.
ResponseNonFatalWitness ==
    /\ pc = "select"
    /\ num = 2
    /\ Len(invoked) = 2
    /\ invoked[1].outcome = [err |-> FALSE, status |-> 500, readErr |-> TRUE]
    /\ invoked[2].outcome = [err |-> FALSE, status |-> 500, readErr |-> FALSE]
    /\ MsgMarked

\* C13: every request issued for a message is a POST to
\* gatewayURL/function/f, f being the next function of the list match
\* returned from the snapshot it loaded, with the payload of the message as
\* body; no function is invoked twice for the message.
InvocationsArePosts ==
    /\ \A k \in DOMAIN invoked :
        /\ k <= Len(matchedFunctions)
        /\ invoked[k].method = "POST"
        /\ invoked[k].url = <<gatewayURL, "function", matchedFunctions[k]>>
        /\ matchedFunctions[k] \in Match(snap, msg.topic)
        /\ invoked[k].body = msg.value
        /\ Len(msg.value) > 0
    /\ NoDuplicates([k \in DOMAIN invoked |-> invoked[k].url])

\* C13 witness: with (f1,orders), (f2,orders), (f1,payments) synced, a
\* message on "payments" got exactly one request, to f1.
InvocationsArePostsWitness ==
    /\ pc = "select"
    /\ msg.topic = "payments"
    /\ snap = IndexOf(<<Sub("f1", "orders"), Sub("f2", "orders"), Sub("f1", "payments")>>)
    /\ Len(invoked) = 1
    /\ invoked[1].url = <<gatewayURL, "function", "f1">>
    /\ invoked[1].body = <<7>>

\* C14: a step that takes a broker error or a rebalance notification is
\* taken at the select and returns to it, removes that one entry, prints
\* its line and changes nothing else; the process keeps running, and at the
\* select after such a line a message that is available can be received.
ErrorAndRebalanceOnlyLog ==
    /\ [][(errorsCh' < errorsCh \/ notifsCh' < notifsCh) =>
            /\ pc = "select" /\ pc' = "select"
            /\ running /\ running'
            /\ errorsCh + notifsCh = errorsCh' + notifsCh' + 1
            /\ stdout' = IF errorsCh' < errorsCh THEN "consumer error" ELSE "rebalanced"
            /\ UNCHANGED <<client, err, fatal, rpc, lookups, topicMap, snap, msg, num,
                           matchedFunctions, idx, invoked, received, marked,
                           synced, rebuildInterval, tickerPeriod>>]_vars
    /\ []((running /\ stdout \in {"consumer error", "rebalanced"}
              /\ \E p \in TopicPartitions : Len(received[p]) < MaxOffset)
            => (pc = "select" /\ ENABLED Receive))

\* C14 witness: after a message with one invocation was marked, a broker
\* error has been handled and the loop is at the select.
ErrorAndRebalanceWitness ==
    /\ pc = "select"
    /\ stdout = "consumer error"
    /\ Len(invoked) = 1
    /\ MsgMarked
    /\ running

\* C15: while the refresh goroutine is inside Build, the step of the
\* consumer loop that is due is enabled (receive when a message is
\* available, match, range, the return of c.Do, mark), match loads the
\* published index, and the index stays as published.
ConsumerNotBlockedByBuild ==
    /\ []((running /\ rpc = "build") =>
            /\ (pc = "select" /\ \E p \in TopicPartitions : Len(received[p]) < MaxOffset)
                  => ENABLED Receive
            /\ pc = "match" => ENABLED MatchLoad
            /\ pc = "matched" => ENABLED MatchReturn
            /\ pc = "range" => ENABLED RangeNext
            /\ pc = "do" => ENABLED DoReturn
            /\ pc = "mark" => ENABLED MarkOffset)
    /\ [][(rpc = "build" /\ rpc' = "build") => topicMap' = topicMap]_vars
    /\ [][(rpc = "build" /\ pc = "match" /\ pc' = "matched") => snap' = topicMap]_vars

\* C15 witness: Build is in progress and the loop has matched a message
\* against the published index, invoked its two subscribers and marked it.
ConsumerNotBlockedWitness ==
    /\ rpc = "build"
    /\ pc = "select"
    /\ stdout = "received"
    /\ snap = topicMap
    /\ Len(invoked) = 2
    /\ MsgMarked

\* C16: a step of the refresh goroutine leaves the position of the loop,
\* the message in progress, its invocations and the offsets alone; a step
\* of the consumer loop leaves the index and the refresh goroutine alone;
\* the index changes only in the sync step, to the grouping of the list the
\* Build of that tick returned.
SharedOnlyIndex ==
    [][ /\ (rpc # "off" /\ (rpc' # rpc \/ lookups' # lookups \/ topicMap' # topicMap)) =>
              UNCHANGED <<pc, snap, msg, num, matchedFunctions, idx, invoked,
                          received, marked, errorsCh, notifsCh, stdout>>
        /\ (rpc # "off" /\ <<pc, snap, msg, num, matchedFunctions, idx, invoked,
                             received, marked>>' #
                           <<pc, snap, msg, num, matchedFunctions, idx, invoked,
                             received, marked>>) =>
              UNCHANGED <<topicMap, rpc, lookups, synced>>
        /\ topicMap' # topicMap =>
              (rpc = "sync" /\ rpc' = "ticker" /\ topicMap' = IndexOf(lookups))
        /\ (rpc' = "sync" /\ rpc # "sync") => (rpc = "build" /\ lookups' \in RegistryStates)
        /\ rpc = "sync" => lookups' = lookups ]_vars

\* C16 witness: the loop waits for a response while the refresh goroutine
\* is about to publish an index different from the current one, and an
\* offset has been marked.
SharedOnlyIndexWitness ==
    /\ pc = "do"
    /\ rpc = "sync"
    /\ IndexOf(lookups) # topicMap
    /\ marked[<<"orders", 0>>] # <<>>

\* C17: once the refresh ticker exists its period is config.rebuildInterval,
\* whatever rebuild_interval the process was started with.
TickerPeriodIsConfigured ==
    tickerPeriod # 0 => tickerPeriod = rebuildInterval

\* C18: from the return of match to the return of mcb the list ranged over,
\* the snapshot it came from and the message do not change, whatever sync
\* publishes meanwhile; the k-th request goes to the k-th function of that
\* list, and a message whose invocations all got a response has had every
\* function of the list invoked; a snapshot is loaded only when a message
\* enters match, and it is the index published at that moment.
SubscribersFixedAtLookup ==
    /\ [][(pc \in {"range", "do"} /\ pc' \in {"range", "do", "mark"}) =>
            UNCHANGED <<matchedFunctions, snap, msg>>]_vars
    /\ [][snap' # snap => (pc \in {"select", "match"} /\ (pc = "match" => snap' = topicMap))]_vars
    /\ [](\A k \in DOMAIN invoked :
            k <= Len(matchedFunctions) /\ invoked[k].function = matchedFunctions[k])
    /\ []((McbReturned /\ Len(msg.value) > 0
              /\ \A k \in DOMAIN invoked : ~invoked[k].outcome.err)
            => Len(invoked) = Len(matchedFunctions))

\* C18 witness: the first of two subscribers of a message on "orders" has
\* answered, the index published meanwhile has no subscriber for "orders",
\* and the loop is about to invoke the second one.
SubscribersFixedWitness ==
    /\ pc = "range"
    /\ msg.topic = "orders"
    /\ Len(matchedFunctions) = 2
    /\ idx = 2
    /\ Len(invoked) = 1
    /\ Match(topicMap, "orders") = {}

\* C19: the refresh goroutine starts, waiting for the ticker, in the step
\* that sets up the consumer loop with an empty index; Build is entered
\* only from a tick; until a sync has completed the index is empty, and a
\* non-empty message matched before that gets no invocation and is marked.
FirstSyncAfterTick ==
    /\ [](~synced => topicMap = NewTopicMap)
    /\ [](rpc = "off" => (~synced /\ pc \in {"connect", "failed", "makeConsumer"}))
    /\ [][(rpc = "off" /\ rpc' # "off") =>
            (rpc' = "ticker" /\ pc' = "select" /\ topicMap' = NewTopicMap /\ ~synced')]_vars
    /\ [][(rpc' = "build" /\ rpc # "build") => rpc = "ticker"]_vars
    /\ [][(synced' /\ ~synced) => rpc = "sync"]_vars
    /\ []((~synced /\ idx >= 1) => (matchedFunctions = <<>> /\ invoked = <<>>))
    /\ []((~synced /\ pc = "select" /\ msg # NoMsg) => MsgMarked)

\* C19 witness: no sync has completed, the first Build has returned a list
\* with subscribers for the topic of a non-empty message, and that message
\* has been matched, got no invocation and has been marked.
FirstSyncWitness ==
    /\ ~synced
    /\ rpc = "sync"
    /\ pc = "select"
    /\ Len(msg.value) > 0
    /\ idx = 1
    /\ SubscribersIn(lookups, msg.topic) # {}
    /\ invoked = <<>>
    /\ MsgMarked

\* some offset received has not been marked
Unmarked == \E p \in TopicPartitions : Range(received[p]) # Range(marked[p])

\* C20: under weak fairness of the steps of the consumer loop and of the
\* return of c.Do, whenever an offset received is not marked, eventually
\* every offset received is marked or the process has been ended by a
\* registry failure.
EveryMessageMarked ==
    Unmarked ~> (~Unmarked \/ fatal = "Build")

\* C20 witness: a message whose second invocation failed in the transport
\* has been marked while a broker error and a notification were waiting.
EveryMessageMarkedWitness ==
    /\ pc = "select"
    /\ ~Unmarked
    /\ Len(invoked) = 2
    /\ invoked[2].outcome.err
    /\ errorsCh > 0 /\ notifsCh > 0
    /\ stdout = "received"
====
